---- MODULE Spec2Model ----
(***************************************************************************)
(* Model of process_streaming_response (main.py, lines 54-77): the loop    *)
(* that reduces a stream of Bedrock Agent events to one accumulated text.  *)
(*                                                                         *)
(* Python values are modelled as tagged records.  Text is a sequence of    *)
(* Unicode code points, a bytes object a sequence of byte values.          *)
(***************************************************************************)
EXTENDS Integers, Sequences, FiniteSets, TLC

\* Longest stream the model enumerates.
MaxLen == 3

----------------------------------------------------------------------------
(* Python values that can sit under event["chunk"]["bytes"] *)

BytesVal(p) == [kind |-> "bytes", pay |-> p]
StrVal(p)   == [kind |-> "str", pay |-> p]
IntVal(n)   == [kind |-> "int", pay |-> <<n>>]
NoneBytes   == [kind |-> "NoneType", pay |-> <<>>]

(* Python values that can sit under event["chunk"]; has is the set of keys *)
(* k for which `k in value` is True.                                       *)
ChunkDict(b) == [kind |-> "dict", has |-> {"bytes"}, bytes |-> b]
ChunkEmpty   == [kind |-> "dict", has |-> {}, bytes |-> NoneBytes]
ChunkNone    == [kind |-> "NoneType", has |-> {}, bytes |-> NoneBytes]

(* Values an event normalizes to *)
EventDict(c) == [kind |-> "dict", has |-> {"chunk"}, chunk |-> c]
OtherDict    == [kind |-> "dict", has |-> {"other"}, chunk |-> ChunkNone]
NoneVal      == [kind |-> "NoneType", has |-> {}, chunk |-> ChunkNone]
EmptyListVal == [kind |-> "list", has |-> {}, chunk |-> ChunkNone]
\* a botocore Event object looked at without converting it
ObjectVal    == [kind |-> "object", has |-> {}, chunk |-> ChunkNone]

(* An event arrives raw (it is the value) or as an object whose            *)
(* to_response_dict() returns the value.                                   *)
Raw(v) == [shape |-> "raw", val |-> v]
Obj(v) == [shape |-> "obj", val |-> v]

(* b"A", b"\xc3\xa9" (e-acute), b"\xe2\x82\xac" (euro sign), b"\xff" and   *)
(* b"\xc3" (both undecodable), "B", 12, None                               *)
Events ==
  { Raw(EventDict(ChunkDict(BytesVal(<<65>>)))),
    Raw(EventDict(ChunkDict(BytesVal(<<195, 169>>)))),
    Obj(EventDict(ChunkDict(BytesVal(<<226, 130, 172>>)))),
    Raw(EventDict(ChunkDict(BytesVal(<<255>>)))),
    Obj(EventDict(ChunkDict(BytesVal(<<195>>)))),
    Raw(EventDict(ChunkDict(StrVal(<<66>>)))),
    Raw(EventDict(ChunkDict(IntVal(12)))),
    Raw(OtherDict),
    Obj(OtherDict),
    Raw(EventDict(ChunkEmpty)),
    Raw(NoneVal),
    Raw(EventDict(ChunkNone)),
    Raw(EmptyListVal) }

Streams == UNION { [1..k -> Events] : k \in 0..MaxLen }

----------------------------------------------------------------------------
(* bytes.decode("utf-8"), strict: [ok, text] *)

IsCont(b) == b >= 128 /\ b <= 191

RECURSIVE Utf8Decode(_)
Utf8Decode(b) ==
  IF Len(b) = 0 THEN [ok |-> TRUE, text |-> <<>>]
  ELSE
    LET b1 == b[1]
        n  == IF b1 < 128 THEN 1
              ELSE IF b1 >= 194 /\ b1 <= 223 THEN 2
              ELSE IF b1 >= 224 /\ b1 <= 239 THEN 3
              ELSE IF b1 >= 240 /\ b1 <= 244 THEN 4
              ELSE 0
    IN IF n = 0 \/ Len(b) < n THEN [ok |-> FALSE, text |-> <<>>]
       ELSE IF \E i \in 2..n : ~IsCont(b[i]) THEN [ok |-> FALSE, text |-> <<>>]
       ELSE
         LET cp == IF n = 1 THEN b1
                   ELSE IF n = 2 THEN (b1 - 192) * 64 + (b[2] - 128)
                   ELSE IF n = 3 THEN (b1 - 224) * 4096 + (b[2] - 128) * 64
                                      + (b[3] - 128)
                   ELSE (b1 - 240) * 262144 + (b[2] - 128) * 4096
                        + (b[3] - 128) * 64 + (b[4] - 128)
             bad == \/ n = 3 /\ cp < 2048
                    \/ n = 3 /\ cp >= 55296 /\ cp <= 57343
                    \/ n = 4 /\ (cp < 65536 \/ cp > 1114111)
             rest == Utf8Decode(SubSeq(b, n + 1, Len(b)))
         IN IF bad \/ ~rest.ok THEN [ok |-> FALSE, text |-> <<>>]
            ELSE [ok |-> TRUE, text |-> <<cp>> \o rest.text]

(* str(x) for the non-bytes payloads *)
RECURSIVE StrOfNat(_)
StrOfNat(n) ==
  IF n < 10 THEN <<48 + n>> ELSE StrOfNat(n \div 10) \o <<48 + (n % 10)>>

StrOf(v) ==
  IF v.kind = "str" THEN v.pay
  ELSE IF v.kind = "int"
       THEN IF v.pay[1] < 0 THEN <<45>> \o StrOfNat(0 - v.pay[1])
            ELSE StrOfNat(v.pay[1])
  ELSE <<78, 111, 110, 101>>

----------------------------------------------------------------------------
(* The loop body *)

\* `key in v`
Contains(v, key) ==
  IF v.kind \in {"dict", "str", "list"}
  THEN IF key \in v.has THEN "True" ELSE "False"
  ELSE "TypeError"

\* v[key], evaluated only after `key in v` was True
GetItemRaises(v) == v.kind # "dict"

HasAttr(e) == e.shape = "obj"
ToResponseDict(e) == e.val
Self(e) == IF e.shape = "obj" THEN ObjectVal ELSE e.val

NormalizeNoConvert(e) == Self(e)

Normalize(e) == IF HasAttr(e) THEN ToResponseDict(e) ELSE Self(e)

\* number of to_response_dict() calls one loop iteration makes
ConvCalls(e) == IF HasAttr(e) THEN 1 ELSE 0

OutputTextIgnoreErrors(ob) ==
  IF ob.kind = "bytes"
  THEN [exc |-> "none", text |-> Utf8Decode(ob.pay).text]
  ELSE [exc |-> "none", text |-> StrOf(ob)]

OutputTextBytesOnly(ob) ==
  IF ob.kind = "bytes"
  THEN IF Utf8Decode(ob.pay).ok
       THEN [exc |-> "none", text |-> Utf8Decode(ob.pay).text]
       ELSE [exc |-> "UnicodeDecodeError", text |-> <<>>]
  ELSE [exc |-> "AttributeError", text |-> <<>>]

\* lines 70-73
OutputText(ob) ==
  IF ob.kind = "bytes"
  THEN IF Utf8Decode(ob.pay).ok
       THEN [exc |-> "none", text |-> Utf8Decode(ob.pay).text]
       ELSE [exc |-> "UnicodeDecodeError", text |-> <<>>]
  ELSE [exc |-> "none", text |-> StrOf(ob)]

AccumulatePrepend(acc, text) == text \o acc

AccumulateOverwrite(acc, text) == text

\* line 74
Accumulate(acc, text) == acc \o text

ChunkStepNoBytesCheck(acc, cd) ==
  IF cd.kind # "dict" THEN [resp |-> acc, exc |-> "TypeError"]
  ELSE IF "bytes" \notin cd.has THEN [resp |-> acc, exc |-> "KeyError"]
  ELSE LET ot == OutputText(cd.bytes)
       IN IF ot.exc # "none" THEN [resp |-> acc, exc |-> ot.exc]
          ELSE [resp |-> Accumulate(acc, ot.text), exc |-> "none"]

\* lines 67-74
ChunkStep(acc, cd) ==
  LET c == Contains(cd, "bytes")
  IN IF c = "TypeError" THEN [resp |-> acc, exc |-> "TypeError"]
     ELSE IF c = "False" THEN [resp |-> acc, exc |-> "none"]
     ELSE IF GetItemRaises(cd) THEN [resp |-> acc, exc |-> "TypeError"]
     ELSE LET ot == OutputText(cd.bytes)
          IN IF ot.exc # "none" THEN [resp |-> acc, exc |-> ot.exc]
             ELSE [resp |-> Accumulate(acc, ot.text), exc |-> "none"]

\* lines 60-74: one iteration on event e with accumulated text acc
Body(acc, e) ==
  LET event_dict == Normalize(e)
      c == Contains(event_dict, "chunk")
  IN IF c = "TypeError" THEN [resp |-> acc, exc |-> "TypeError"]
     ELSE IF c = "False" THEN [resp |-> acc, exc |-> "none"]
     ELSE IF GetItemRaises(event_dict) THEN [resp |-> acc, exc |-> "TypeError"]
     ELSE ChunkStep(acc, event_dict.chunk)

\* the whole loop over a list of events: the text accumulated when it ends
RECURSIVE RunFrom(_, _)
RunFrom(acc, events) ==
  IF Len(events) = 0 THEN acc
  ELSE LET r == Body(acc, Head(events))
       IN IF r.exc # "none" THEN r.resp ELSE RunFrom(r.resp, Tail(events))

Run(events) == RunFrom(<<>>, events)

CatchesOnlyDecodeErrors(exc) == exc = "UnicodeDecodeError"

CatchesOnlyTypeErrors(exc) == exc = "TypeError"

\* line 75: `except Exception` against the classes raised inside the try
Catches(exc) ==
  exc \in {"TypeError", "KeyError", "AttributeError", "UnicodeDecodeError",
           "StreamError"}

----------------------------------------------------------------------------
VARIABLES
  stream,         \* the events the iterator delivers, in order
  raises,         \* TRUE: the iterator raises once they are delivered
  idx,            \* events the iterator has delivered
  pulled,         \* history: the events the loop received, in order
  convCalls,      \* history: to_response_dict() calls, per received event
  full_response,  \* line 56
  pc,             \* "loop", "except", "return", "done"
  exc,            \* the exception in flight, "none" when there is none
  iterFailed,     \* the iterator itself raised
  diag,           \* lines printed
  outcome,        \* "running", "returned", "raised"
  retval          \* the returned text once outcome = "returned"

vars == <<stream, raises, idx, pulled, convCalls, full_response, pc, exc,
          iterFailed, diag, outcome, retval>>

Init ==
  /\ stream \in Streams
  /\ raises \in BOOLEAN
  /\ idx = 0
  /\ pulled = <<>>
  /\ convCalls = <<>>
  /\ full_response = <<>>
  /\ pc = "loop"
  /\ exc = "none"
  /\ iterFailed = FALSE
  /\ diag = <<>>
  /\ outcome = "running"
  /\ retval = <<>>

\* lines 58-74: the iterator yields the next event and the body runs on it
LoopBody ==
  /\ pc = "loop"
  /\ idx < Len(stream)
  /\ LET e == stream[idx + 1]
         r == Body(full_response, e)
     IN /\ idx' = idx + 1
        /\ pulled' = Append(pulled, e)
        /\ convCalls' = Append(convCalls, ConvCalls(e))
        /\ full_response' = r.resp
        /\ exc' = r.exc
        /\ pc' = IF r.exc = "none" THEN "loop" ELSE "except"
  /\ UNCHANGED <<stream, raises, iterFailed, diag, outcome, retval>>

\* line 58: the iterator is exhausted
StopIteration ==
  /\ pc = "loop"
  /\ idx = Len(stream)
  /\ ~raises
  /\ pc' = "return"
  /\ UNCHANGED <<stream, raises, idx, pulled, convCalls, full_response, exc,
                 iterFailed, diag, outcome, retval>>

\* line 58: the iterator raises instead of yielding
IterRaises ==
  /\ pc = "loop"
  /\ idx = Len(stream)
  /\ raises
  /\ exc' = "StreamError"
  /\ iterFailed' = TRUE
  /\ pc' = "except"
  /\ UNCHANGED <<stream, raises, idx, pulled, convCalls, full_response, diag,
                 outcome, retval>>

ExceptHandlerSilent ==
  /\ pc = "except"
  /\ IF Catches(exc)
     THEN /\ pc' = "return"
          /\ exc' = "none"
          /\ UNCHANGED <<diag, outcome>>
     ELSE /\ pc' = "done"
          /\ outcome' = "raised"
          /\ UNCHANGED <<diag, exc>>
  /\ UNCHANGED <<stream, raises, idx, pulled, convCalls, full_response,
                 iterFailed, retval>>

\* lines 75-76
ExceptHandler ==
  /\ pc = "except"
  /\ IF Catches(exc)
     THEN /\ diag' = Append(diag, [line |-> "Error processing stream",
                                   err |-> exc])
          /\ pc' = "return"
          /\ exc' = "none"
          /\ UNCHANGED outcome
     ELSE /\ pc' = "done"
          /\ outcome' = "raised"
          /\ UNCHANGED <<diag, exc>>
  /\ UNCHANGED <<stream, raises, idx, pulled, convCalls, full_response,
                 iterFailed, retval>>

\* line 77
Return ==
  /\ pc = "return"
  /\ retval' = full_response
  /\ outcome' = "returned"
  /\ pc' = "done"
  /\ UNCHANGED <<stream, raises, idx, pulled, convCalls, full_response, exc,
                 iterFailed, diag>>

Next == LoopBody \/ StopIteration \/ IterRaises \/ ExceptHandler \/ Return

Spec == Init /\ [][Next]_vars

TypeOK ==
  /\ idx \in 0..Len(stream)
  /\ pc \in {"loop", "except", "return", "done"}
  /\ outcome \in {"running", "returned", "raised"}

\* the function runs to completion: a finite stream, one thread
FairSpec == Spec /\ WF_vars(Next)

----------------------------------------------------------------------------
(* Vocabulary of the properties, stated on the mapping an event denotes *)

IsPrefix(s, t) == Len(s) <= Len(t) /\ SubSeq(t, 1, Len(s)) = s

IsText(t) == \A i \in 1..Len(t) : t[i] \in 0..1114111

HasPayload(e) ==
  /\ e.val.kind = "dict" /\ "chunk" \in e.val.has
  /\ e.val.chunk.kind = "dict" /\ "bytes" \in e.val.chunk.has

PayloadOf(e) == e.val.chunk.bytes

WellFormedChunk(e) ==
  /\ HasPayload(e)
  /\ PayloadOf(e).kind = "bytes"
  /\ Utf8Decode(PayloadOf(e).pay).ok

Undecodable(e) ==
  /\ HasPayload(e)
  /\ PayloadOf(e).kind = "bytes"
  /\ ~Utf8Decode(PayloadOf(e).pay).ok

NonBytesPayload(e) == HasPayload(e) /\ PayloadOf(e).kind # "bytes"

\* no "chunk" key in the mapping, or no "bytes" key in the chunk mapping
Keyless(e) ==
  \/ e.val.kind = "dict" /\ "chunk" \notin e.val.has
  \/ /\ e.val.kind = "dict" /\ "chunk" \in e.val.has
     /\ e.val.chunk.kind = "dict" /\ "bytes" \notin e.val.chunk.has

\* the event is not a mapping, or its "chunk" value is not a mapping
WrongType(e) ==
  \/ e.val.kind # "dict"
  \/ e.val.kind = "dict" /\ "chunk" \in e.val.has /\ e.val.chunk.kind # "dict"

\* the text an event's payload stands for (empty when it has none)
Payload(e) ==
  IF ~HasPayload(e) THEN <<>>
  ELSE IF PayloadOf(e).kind = "bytes" THEN Utf8Decode(PayloadOf(e).pay).text
  ELSE StrOf(PayloadOf(e))

RECURSIVE ConcatPayloads(_)
ConcatPayloads(events) ==
  IF Len(events) = 0 THEN <<>>
  ELSE Payload(Head(events)) \o ConcatPayloads(Tail(events))

RECURSIVE DecodedConcat(_)
DecodedConcat(events) ==
  IF Len(events) = 0 THEN <<>>
  ELSE Utf8Decode(Head(events).val.chunk.bytes.pay).text
       \o DecodedConcat(Tail(events))

RECURSIVE Drop(_, _)
Drop(P(_), events) ==
  IF Len(events) = 0 THEN <<>>
  ELSE IF P(Head(events)) THEN Drop(P, Tail(events))
  ELSE <<Head(events)>> \o Drop(P, Tail(events))

AsRaw(events) == [i \in 1..Len(events) |-> Raw(events[i].val)]

LastPulled == pulled[Len(pulled)]

----------------------------------------------------------------------------
\* C1: a stream of well-formed chunk events only, ending by exhaustion,
\* returns exactly the concatenation of the decoded payloads in arrival
\* order.
Thm_C1 ==
  (pc = "done" /\ ~raises /\ \A i \in 1..Len(stream) : WellFormedChunk(stream[i]))
    => /\ outcome = "returned"
       /\ retval = DecodedConcat(stream)

Wit_C1 ==
  /\ outcome = "returned" /\ ~raises
  /\ Len(stream) = 3
  /\ \A i \in 1..3 : WellFormedChunk(stream[i])
  /\ stream[1] # stream[2] /\ stream[2] # stream[3] /\ stream[1] # stream[3]
  /\ retval = <<8364, 65, 233>>

\* C2: when the iterator raises after delivering k events, the call does not
\* raise and returns the concatenation of the payloads of the chunk events
\* among those k events.
Thm_C2 ==
  iterFailed =>
    /\ outcome # "raised"
    /\ pulled = stream
    /\ full_response = ConcatPayloads(stream)
    /\ (pc = "done" => outcome = "returned" /\ retval = ConcatPayloads(stream))

Wit_C2 ==
  /\ iterFailed /\ outcome = "returned"
  /\ Len(stream) = 2
  /\ WellFormedChunk(stream[1]) /\ Keyless(stream[2])
  /\ retval = <<65>>

\* C3: whatever the events and whether or not the iteration fails, no
\* exception leaves the call and the call ends by returning a text.
Thm_C3 ==
  /\ [](outcome # "raised" /\ IsText(retval))
  /\ <>(outcome = "returned")

Wit_C3 ==
  /\ outcome = "returned"
  /\ Len(diag) = 1 /\ diag[1].err = "TypeError"
  /\ Len(stream) = 3 /\ WrongType(stream[2]) /\ Undecodable(stream[3])

\* C4 (as claimed): an event that is not a mapping, or whose "chunk" value is
\* not a mapping, is skipped and the events after it still contribute: the
\* result is the one of the stream without those events.
CE_C4 ==
  outcome = "returned" => retval = Run(Drop(WrongType, stream))

\* C5: an event without "chunk" key, or whose chunk has no "bytes" key,
\* leaves the accumulated response unchanged and the loop continues; the
\* result is the one of the stream without those events.
Thm_C5 ==
  /\ full_response = Run(Drop(Keyless, pulled))
  /\ (Len(pulled) > 0 /\ Keyless(LastPulled) /\ ~iterFailed)
       => exc = "none" /\ diag = <<>> /\ pc # "except"
  /\ outcome = "returned" => retval = Run(Drop(Keyless, stream))

Wit_C5 ==
  /\ outcome = "returned"
  /\ Len(stream) = 3
  /\ stream[1] = Raw(OtherDict) /\ stream[2] = Raw(EventDict(ChunkEmpty))
  /\ WellFormedChunk(stream[3])
  /\ retval = <<233>>

\* C6: a chunk whose bytes are not valid UTF-8 appends nothing; it ends the
\* stream, one diagnostic reports it, and the result holds the payloads
\* before it only.
Thm_C6 ==
  \A i \in 1..Len(pulled) :
    Undecodable(pulled[i]) =>
      /\ i = Len(pulled)
      /\ full_response = ConcatPayloads(SubSeq(stream, 1, i - 1))
      /\ pc # "loop"
      /\ ~iterFailed
      /\ pc = "except" => exc = "UnicodeDecodeError"
      /\ pc \in {"return", "done"} =>
           Len(diag) = 1 /\ diag[1].err = "UnicodeDecodeError"
      /\ outcome = "returned" => retval = full_response

Wit_C6 ==
  /\ outcome = "returned"
  /\ Len(stream) = 3
  /\ WellFormedChunk(stream[1]) /\ Undecodable(stream[2])
  /\ WellFormedChunk(stream[3])
  /\ retval = <<65>> /\ Len(diag) = 1

\* C7: a "bytes" value that is text is appended unchanged, one of another
\* type is appended as its str(); the loop continues after it.
Thm_C7 ==
  /\ StrOf(IntVal(12)) = <<49, 50>>
  /\ \A i \in 1..Len(pulled) :
       NonBytesPayload(pulled[i]) =>
         LET b == PayloadOf(pulled[i])
             t == IF b.kind = "str" THEN b.pay ELSE StrOf(b)
         IN /\ IsPrefix(ConcatPayloads(SubSeq(pulled, 1, i - 1)) \o t,
                        full_response)
            /\ Len(t) > 0
            /\ (i = Len(pulled) /\ ~iterFailed)
                 => exc = "none" /\ pc # "except" /\ diag = <<>>

Wit_C7 ==
  /\ outcome = "returned"
  /\ Len(stream) = 3
  /\ stream[1] = Raw(EventDict(ChunkDict(StrVal(<<66>>))))
  /\ stream[2] = Raw(EventDict(ChunkDict(IntVal(12))))
  /\ WellFormedChunk(stream[3])
  /\ retval = <<66, 49, 50, 65>>

\* C8 (as claimed): a diagnostic is emitted if and only if the iteration of
\* the stream itself failed, and then exactly one.  Stated on the streams
\* whose events are all mappings with a mapping under "chunk", where no
\* wrong-type event is involved.
CE_C8 ==
  (pc = "done" /\ \A i \in 1..Len(stream) : ~WrongType(stream[i]))
    => Len(diag) = (IF iterFailed THEN 1 ELSE 0)

\* C8 (amended): a diagnostic is emitted if and only if the loop was ended by
\* an exception, raised by the iterator or by the processing of an event;
\* then exactly one is emitted before returning, and a run that ends by
\* exhaustion of the stream emits none.
Thm_C8 ==
  LET eventRaised == Len(pulled) > 0 /\ Body(<<>>, LastPulled).exc # "none"
  IN /\ pc \in {"loop", "except"} => diag = <<>>
     /\ pc \in {"return", "done"} =>
          Len(diag) = (IF iterFailed \/ eventRaised THEN 1 ELSE 0)
     /\ (pc \in {"return", "done"} /\ ~raises /\ pulled = stream /\ ~eventRaised)
          => diag = <<>>

Wit_C8 ==
  /\ pc = "done" /\ ~iterFailed /\ Len(diag) = 1
  /\ Len(pulled) = 2 /\ Undecodable(LastPulled)

\* C9: an event delivered as an object with to_response_dict() is processed
\* like the mapping the conversion returns, and the conversion is called at
\* most once per event.
Thm_C9 ==
  /\ full_response = Run(AsRaw(pulled))
  /\ outcome = "returned" => retval = Run(AsRaw(stream))
  /\ Len(convCalls) = Len(pulled)
  /\ \A i \in 1..Len(convCalls) :
       convCalls[i] = (IF pulled[i].shape = "obj" THEN 1 ELSE 0)

Wit_C9 ==
  /\ outcome = "returned"
  /\ Len(stream) = 3
  /\ stream[1].shape = "obj" /\ WellFormedChunk(stream[1])
  /\ stream[2] = Obj(OtherDict)
  /\ stream[3].shape = "raw" /\ WellFormedChunk(stream[3])
  /\ retval = <<8364, 65>>
  /\ convCalls = <<1, 1, 0>>

\* C10: the accumulated response is the ordered concatenation of the
\* payloads of the events pulled so far, each step only extends it, events
\* are pulled one at a time in stream order, and none is pulled once the
\* stream has failed or the call has returned.
Inv_C10 ==
  /\ full_response = ConcatPayloads(pulled)
  /\ Len(pulled) = idx
  /\ pulled = SubSeq(stream, 1, idx)

Step_C10 ==
  /\ IsPrefix(full_response, full_response')
  /\ pulled' # pulled =>
       /\ pulled' = Append(pulled, stream[idx + 1])
       /\ idx' = idx + 1
       /\ pc = "loop" /\ exc = "none" /\ ~iterFailed /\ outcome = "running"
  /\ pulled' = pulled => idx' = idx

Thm_C10 == []Inv_C10 /\ [][Step_C10]_vars

Wit_C10 ==
  /\ pc = "loop" /\ Len(pulled) = 2 /\ Len(stream) = 3
  /\ full_response = <<65, 233>>
====
